---- MODULE Spec2Model ----
(***************************************************************************)
(* A model of the structured event logger (package log), the HTTP          *)
(* middleware built on it (package middleware) and the default stdout      *)
(* sink under concurrent callers.                                          *)
(*                                                                         *)
(* Go values are modelled as follows.                                      *)
(*   string, []byte      a TLA+ string (len(x) is Len(x))                  *)
(*   map[string]T        a function whose DOMAIN is the set of keys        *)
(*   nil pointer/map/err the empty sequence << >>; a non-nil one is <<v>>  *)
(*   SetFieldValue       a record naming the option and its captured args  *)
(***************************************************************************)
EXTENDS Integers, Sequences, FiniteSets, TLC

VARIABLES
    Writer,     \* log.Writer, the process-wide sink: "nil", "buffer" or "stdout"
    call,       \* the arguments of the Log call a client makes
    writes,     \* the payloads handed to Writer.Write by the most recent call/request
    diag,       \* what fmt.Printf put on the secondary diagnostic stream
    outcome,    \* how the most recent call ended: "none", "returned" or "panicked"
    incoming,   \* the HTTP request that arrives, its handler and the middleware around it
    served,     \* << >> until the request is served, then <<what the serving did>>
    pc,         \* per goroutine: position inside Log/stdout.Write
    logged,     \* per goroutine: how many Log calls it has completed
    stdoutBuf   \* the chunks os.Stdout has received, in order

vars == <<Writer, call, writes, diag, outcome, incoming, served, pc, logged, stdoutBuf>>

----------------------------------------------------------------------------
(* Bounds of the model. *)

\* Longest sequence of options handed to one Log call.
MaxOpts == 2
\* How many body sizes above BodyLimit are tried.
MaxOver == 2
\* Longest handler program (operations on the response writer and the request).
MaxOps == 3
\* How many distinct ids shortuuid.New can return.
MaxIDs == 2
\* Log calls made by each concurrent goroutine.
MaxLogs == 2

----------------------------------------------------------------------------
(* Package log. *)

BodyLimit == 2048

HOSTNAME == "pod-1"

\* time.Now().UTC().Format(time.RFC3339Nano): one fixed instant.
Now == "2006-01-02T15:04:05.999999999Z"

RECURSIVE Repeat(_, _)
Repeat(s, n) ==
    IF n = 0 THEN ""
    ELSE IF n % 2 = 0 THEN LET h == Repeat(s, n \div 2) IN h \o h
    ELSE s \o Repeat(s, n - 1)

len(m) == Cardinality(DOMAIN m)

\* The one element of a singleton set. {F(v) : v \in {e}} computes e once, however
\* often F uses v.
The(S) == CHOOSE y \in S : TRUE

NoMap == << >>

\* The zero event Log starts from.
NewEvent(message) ==
    [Message |-> message, Timestamp |-> Now, ReferenceID |-> "", User |-> "",
     Error |-> "", Context |-> << >>, Request |-> << >>, Response |-> << >>,
     Hostname |-> HOSTNAME]

RECURSIVE Join(_, _)
Join(values, sep) ==
    IF Len(values) = 0 THEN ""
    ELSE IF Len(values) = 1 THEN values[1]
    ELSE values[1] \o sep \o Join(Tail(values), sep)

formatHeaders(headers) ==
    IF len(headers) = 0 THEN NoMap
    ELSE [header \in DOMAIN headers |-> Join(headers[header], ", ")]

\* formatBody with len(body) >= BodyLimit for len(body) > BodyLimit.
formatBody_OffByOne(body) ==
    IF Len(body) = 0 THEN ""
    ELSE IF Len(body) >= BodyLimit
         THEN "not logged: body size (" \o ToString(Len(body))
              \o " bytes) is bigger than limit (" \o ToString(BodyLimit) \o " bytes)"
    ELSE body

formatBody(body) ==
    IF Len(body) = 0 THEN ""
    ELSE IF Len(body) > BodyLimit
         THEN "not logged: body size (" \o ToString(Len(body))
              \o " bytes) is bigger than limit (" \o ToString(BodyLimit) \o " bytes)"
    ELSE body

(* The option constructors: each returns the closure, its arguments captured. *)
ReferenceID(referenceID) == [op |-> "ReferenceID", referenceID |-> referenceID]
Error(err) == [op |-> "Error", err |-> err]
User(user) == [op |-> "User", user |-> user]
Context(cnt) == [op |-> "Context", cnt |-> cnt]
Request(method, host, path, query, headers, body) ==
    [op |-> "Request", method |-> method, host |-> host, path |-> path,
     query |-> query, headers |-> headers, body |-> body]
Response(statusCode, headers, body) ==
    [op |-> "Response", statusCode |-> statusCode, headers |-> headers, body |-> body]

(* The closures' bodies: what set(&e) does. *)
setReferenceID(s, e) == [e EXCEPT !.ReferenceID = s.referenceID]

\* err.Error() on a nil error is a nil dereference: the closure panics.
setErrorPanics(s) == s.err = << >>
setError(s, e) == [e EXCEPT !.Error = s.err[1]]

setUser(s, e) == [e EXCEPT !.User = s.user]

setContext(s, e) ==
    IF s.cnt = << >> THEN e ELSE [e EXCEPT !.Context = s.cnt]

requestEmpty(s) ==
    /\ s.method = "" /\ s.host = "" /\ s.path = ""
    /\ len(s.query) = 0 /\ len(s.headers) = 0 /\ Len(s.body) = 0

\* setRequest with len(headers) == 0 left out of the emptiness test.
setRequest_NoHeaders(s, e) ==
    IF s.method = "" /\ s.host = "" /\ s.path = "" /\ len(s.query) = 0 /\ Len(s.body) = 0
    THEN e
    ELSE [e EXCEPT !.Request =
            <<[Method |-> s.method, Host |-> s.host, Path |-> s.path, Query |-> s.query,
               Headers |-> formatHeaders(s.headers), Body |-> formatBody(s.body)]>>]

setRequest(s, e) ==
    IF requestEmpty(s) THEN e
    ELSE [e EXCEPT !.Request =
            <<[Method |-> s.method, Host |-> s.host, Path |-> s.path, Query |-> s.query,
               Headers |-> formatHeaders(s.headers), Body |-> formatBody(s.body)]>>]

responseEmpty(s) ==
    s.statusCode = 0 /\ len(s.headers) = 0 /\ Len(s.body) = 0

setResponse(s, e) ==
    IF responseEmpty(s) THEN e
    ELSE [e EXCEPT !.Response =
            <<[StatusCode |-> s.statusCode, Headers |-> formatHeaders(s.headers),
               Body |-> formatBody(s.body)]>>]

setPanics(s) == s.op = "Error" /\ setErrorPanics(s)

set(s, e) ==
    CASE s.op = "ReferenceID" -> setReferenceID(s, e)
      [] s.op = "Error"       -> setError(s, e)
      [] s.op = "User"        -> setUser(s, e)
      [] s.op = "Context"     -> setContext(s, e)
      [] s.op = "Request"     -> setRequest(s, e)
      [] s.op = "Response"    -> setResponse(s, e)

\* for _, set := range setters { set(&e) }: stops at the first closure that panics.
RECURSIVE applySetters(_, _)
applySetters(setters, e) ==
    IF Len(setters) = 0 THEN [e |-> e, panicked |-> FALSE]
    ELSE IF setPanics(Head(setters)) THEN [e |-> e, panicked |-> TRUE]
    ELSE applySetters(Tail(setters), set(Head(setters), e))

(* json.Marshal: a key tagged omitempty is absent when its value is empty. *)
Field(key, present, value) == IF present THEN key :> value ELSE << >>

marshalRequest(r) ==
    Field("method", r.Method # "", r.Method)
    @@ Field("host", r.Host # "", r.Host)
    @@ Field("path", r.Path # "", r.Path)
    @@ Field("query", len(r.Query) # 0, r.Query)
    @@ Field("headers", len(r.Headers) # 0, r.Headers)
    @@ Field("body", r.Body # "", r.Body)

marshalResponse(r) ==
    ("status_code" :> r.StatusCode)
    @@ Field("headers", len(r.Headers) # 0, r.Headers)
    @@ Field("body", r.Body # "", r.Body)

marshal(e) ==
    ("message" :> e.Message)
    @@ ("timestamp" :> e.Timestamp)
    @@ Field("reference_id", e.ReferenceID # "", e.ReferenceID)
    @@ Field("user", e.User # "", e.User)
    @@ Field("error", e.Error # "", e.Error)
    @@ Field("context", e.Context # << >> /\ len(e.Context[1]) # 0, e.Context[1])
    @@ Field("request", e.Request # << >>, marshalRequest(e.Request[1]))
    @@ Field("response", e.Response # << >>, marshalResponse(e.Response[1]))
    @@ Field("hostname", e.Hostname # "", e.Hostname)

\* The degraded message written when json.Marshal fails.
marshalFallback(e) ==
    ("message" :> "failed json.Marshal")
    @@ ("error" :> "json: error")
    @@ ("reference_id" :> e.ReferenceID)
    @@ ("context" :> ("event" :> e))

writeFailed(e, log) ==
    ("message" :> "failed l.Writer.Write")
    @@ ("error" :> "write error")
    @@ ("reference_id" :> e.ReferenceID)
    @@ ("context" :> ("data" :> log))

\* A logger state: the Write calls made on the sink, the diagnostic stream,
\* and whether a panic is unwinding.
NewLg == [writes |-> << >>, diag |-> << >>, panicked |-> FALSE]

\* Log with the setters applied last to first.
Log_ReverseSetters(lg, message, setters, marshalOK, writeOK) ==
    IF Writer = "nil" THEN lg
    ELSE
    The({IF r.panicked THEN [lg EXCEPT !.panicked = TRUE]
         ELSE LET log == IF marshalOK THEN marshal(r.e) ELSE marshalFallback(r.e) IN
              [lg EXCEPT !.writes = Append(@, log),
                         !.diag = IF writeOK THEN @ ELSE Append(@, writeFailed(r.e, log))] :
            r \in {applySetters([i \in 1..Len(setters) |-> setters[Len(setters) + 1 - i]],
                                NewEvent(message))}})

Log(lg, message, setters, marshalOK, writeOK) ==
    IF Writer = "nil" THEN lg
    ELSE
    The({IF r.panicked THEN [lg EXCEPT !.panicked = TRUE]
         ELSE LET log == IF marshalOK THEN marshal(r.e) ELSE marshalFallback(r.e) IN
              [lg EXCEPT !.writes = Append(@, log),
                         !.diag = IF writeOK THEN @ ELSE Append(@, writeFailed(r.e, log))] :
            r \in {applySetters(setters, NewEvent(message))}})

----------------------------------------------------------------------------
(* Clients of package log: the inputs Log is called with. *)

Body(n) == Repeat("a", n)

\* Body sizes around the limit, and two small ones.
BodySizes == {0, 1, BodyLimit - 1, BodyLimit} \cup {BodyLimit + i : i \in 1..MaxOver}

Bodies == {Body(n) : n \in BodySizes}

NoHeaders == << >>
HeadersX == "X" :> <<"a", "b">>
HeadersCT == "Content-Type" :> <<"application/json">>
QueryQ == "q" :> <<"1">>
Ctx1 == "body" :> "v1"
Ctx2 == "key" :> "v2"

\* The options a client may pass: for each field two distinct non-empty values
\* and the empty or nil argument.
Options ==
    {ReferenceID("r1"), ReferenceID("r2"), ReferenceID(""),
     User("u1"), User("u2"),
     Error(<<"e1">>), Error(<<"e2">>), Error(<< >>),
     Context(<<Ctx1>>), Context(<<Ctx2>>), Context(<<NoMap>>), Context(<< >>),
     Request("POST", "example.org", "/p", NoMap, HeadersX, "hi"),
     Request("GET", "localhost:8080", "/api/v1", QueryQ, NoHeaders, ""),
     Request("", "", "", NoMap, NoHeaders, ""),
     Response(201, NoHeaders, "ok"),
     Response(500, HeadersCT, ""),
     Response(0, NoHeaders, "")}

RECURSIVE SeqsUpTo(_, _)
SeqsUpTo(S, n) ==
    IF n = 0 THEN {<< >>}
    ELSE LET shorter == SeqsUpTo(S, n - 1) IN
         shorter \cup {Append(q, x) : q \in {r \in shorter : Len(r) = n - 1}, x \in S}

\* Every Log call a client may make: Log(message, setters...) with any sequence of
\* options, and Log(message, Request(...), Response(...)) for one HTTP transaction.
LogCalls ==
    [kind : {"log"}, message : {"failed db.CreateArticle"},
     setters : SeqsUpTo(Options, MaxOpts), marshalOK : BOOLEAN, writeOK : BOOLEAN]

TransactionCalls ==
    {[kind |-> "transaction", message |-> "out 'POST example.org/p' 201",
      setters |-> <<Request(method, host, path, query, headers, body),
                    Response(statusCode, rheaders, rbody)>>,
      marshalOK |-> TRUE, writeOK |-> writeOK] :
        method \in {"", "POST"}, host \in {"", "example.org"}, path \in {"", "/p"},
        query \in {NoMap, QueryQ}, headers \in {NoHeaders, HeadersX}, body \in Bodies,
        statusCode \in {0, 201}, rheaders \in {NoHeaders, HeadersCT}, rbody \in Bodies,
        writeOK \in BOOLEAN}

\* No Log call by a client: the value of call where the clients are the middleware.
NoCall == [kind |-> "none", message |-> "", setters |-> << >>,
           marshalOK |-> TRUE, writeOK |-> TRUE]

InitLog ==
    /\ Writer \in {"nil", "buffer"}
    /\ call \in LogCalls \cup TransactionCalls
    /\ writes = << >>
    /\ diag = << >>
    /\ outcome = "none"
    /\ incoming = << >>
    /\ served = << >>
    /\ pc = << >>
    /\ logged = << >>
    /\ stdoutBuf = << >>

\* One call of Log by a client, start to end.
DoLog ==
    \E lg \in {Log(NewLg, call.message, call.setters, call.marshalOK, call.writeOK)} :
    /\ writes' = lg.writes
    /\ diag' = lg.diag
    /\ outcome' = IF lg.panicked THEN "panicked" ELSE "returned"
    /\ UNCHANGED <<Writer, call, incoming, served, pc, logged, stdoutBuf>>

LogCall == outcome = "none" /\ call.kind = "log" /\ DoLog

LogTransaction == outcome = "none" /\ call.kind = "transaction" /\ DoLog

NextLog == LogCall \/ LogTransaction

SpecLog == InitLog /\ [][NextLog]_vars

----------------------------------------------------------------------------
(* Properties of package log, stated for the behaviours of SpecLog. *)

Max(S) == CHOOSE x \in S : \A y \in S : y <= x

\* The value of a key of a serialized object: << >> when the key is absent.
PField(p, key) == IF key \in DOMAIN p THEN <<p[key]>> ELSE << >>

\* The call has ended and the sink holds the serialized event.
Emitted == outcome = "returned" /\ Writer # "nil" /\ call.marshalOK

FieldKeys == {"reference_id", "user", "error", "context", "request", "response"}

FieldOf(s) ==
    CASE s.op = "ReferenceID" -> "reference_id"
      [] s.op = "User"        -> "user"
      [] s.op = "Error"       -> "error"
      [] s.op = "Context"     -> "context"
      [] s.op = "Request"     -> "request"
      [] s.op = "Response"    -> "response"

\* What one option gives a field: the field of the event emitted with it alone.
GivenBy(s, key) == PField(Log(NewLg, call.message, <<s>>, TRUE, TRUE).writes[1], key)

AllEmptyRequest(s) ==
    /\ s.method = "" /\ s.host = "" /\ s.path = ""
    /\ DOMAIN s.query = {} /\ DOMAIN s.headers = {} /\ s.body = ""

AllEmptyResponse(s) ==
    s.statusCode = 0 /\ DOMAIN s.headers = {} /\ s.body = ""

\* An option that leaves the event as it was: Context(nil) and the Request and
\* Response options with nothing but empty arguments.
NoOp(s) ==
    \/ s.op = "Context" /\ s.cnt = << >>
    \/ s.op = "Request" /\ AllEmptyRequest(s)
    \/ s.op = "Response" /\ AllEmptyResponse(s)

LastOf(I) == IF I = {} THEN 0 ELSE Max(I)

\* C5 as stated: in the emitted event every field holds the value given by the last
\* option of the sequence that targets the field, whatever that option's arguments.
C5_LastOptionWins ==
    Emitted =>
        \A key \in FieldKeys :
            LET i == LastOf({j \in 1..Len(call.setters) : FieldOf(call.setters[j]) = key})
            IN PField(writes[1], key)
                 = IF i = 0 THEN << >> ELSE GivenBy(call.setters[i], key)

\* C5 amended: options are applied in order; reference_id, user and error hold the
\* value given by the last option that targets them, and context, request and
\* response hold the value given by the last targeting option that is not a no-op
\* (Context(nil), all-empty Request or Response), and are absent when there is none.
C5_LastEffectiveOptionWins ==
    Emitted =>
        \A key \in FieldKeys :
            LET i == LastOf({j \in 1..Len(call.setters) :
                                /\ FieldOf(call.setters[j]) = key
                                /\ ~NoOp(call.setters[j])})
            IN PField(writes[1], key)
                 = IF i = 0 THEN << >> ELSE GivenBy(call.setters[i], key)

\* Two options for one field with different values were applied and the event emitted.
C5_Witness ==
    /\ Emitted /\ call.kind = "log" /\ Len(call.setters) = 2
    /\ FieldOf(call.setters[1]) = FieldOf(call.setters[2])
    /\ ~NoOp(call.setters[1]) /\ ~NoOp(call.setters[2])
    /\ GivenBy(call.setters[1], FieldOf(call.setters[1]))
         # GivenBy(call.setters[2], FieldOf(call.setters[2]))

\* C6 as stated: every Log call returns normally, having made exactly one Write on
\* a non-nil sink (serialization failing or not, the Write failing or not) and no
\* Write on a nil sink.
C6_OneWritePerCall ==
    outcome # "none" =>
        /\ outcome = "returned"
        /\ Len(writes) = IF Writer = "nil" THEN 0 ELSE 1

\* The part of C6 the code does satisfy: a call none of whose options is Error(nil).
C6_OneWriteUnlessNilError ==
    (outcome # "none" /\ \A j \in 1..Len(call.setters) : call.setters[j] # Error(<< >>)) =>
        /\ outcome = "returned"
        /\ Len(writes) = IF Writer = "nil" THEN 0 ELSE 1
        /\ Len(diag) = IF Writer # "nil" /\ ~call.writeOK THEN 1 ELSE 0

\* The body a serialized sub-record shows: "" when the record or its body is absent.
LoggedBody(p, key) ==
    IF key \in DOMAIN p /\ "body" \in DOMAIN p[key] THEN p[key]["body"] ELSE ""

TooBig(n) ==
    "not logged: body size (" \o ToString(n) \o " bytes) is bigger than limit (2048 bytes)"

\* C7: a body of at most 2048 bytes given to Request or Response is logged as it
\* is; a longer one is logged as the diagnostic string with its size and the limit,
\* which is not the body and is shorter than it.
C7_BodyLimit ==
    (Emitted /\ call.kind = "transaction") =>
        \A j \in 1..2 :
            LET body == call.setters[j].body
                got == LoggedBody(writes[1], FieldOf(call.setters[j]))
            IN /\ Len(body) <= 2048 => got = body
               /\ Len(body) > 2048 =>
                    got = TooBig(Len(body)) /\ got # body /\ Len(got) < Len(body)

\* A request body of exactly the limit and a response body over it were logged.
C7_Witness ==
    /\ Emitted /\ call.kind = "transaction"
    /\ Len(call.setters[1].body) = 2048
    /\ Len(call.setters[2].body) > 2048
    /\ LoggedBody(writes[1], "request") = call.setters[1].body
    /\ LoggedBody(writes[1], "response") # call.setters[2].body

\* C8: with one Request and one Response option the event has no request exactly
\* when method, host, path, query, headers and body are all empty and no response
\* exactly when the status is zero and headers and body are empty; a sub-record
\* that is present shows the given values.
C8_SubRecordOmission ==
    (Emitted /\ call.kind = "transaction") =>
        LET rq == call.setters[1]
            rs == call.setters[2]
            p == writes[1]
        IN /\ "request" \notin DOMAIN p <=> AllEmptyRequest(rq)
           /\ "response" \notin DOMAIN p <=> AllEmptyResponse(rs)
           /\ "request" \in DOMAIN p =>
                /\ PField(p["request"], "method") = IF rq.method = "" THEN << >> ELSE <<rq.method>>
                /\ PField(p["request"], "host") = IF rq.host = "" THEN << >> ELSE <<rq.host>>
                /\ PField(p["request"], "path") = IF rq.path = "" THEN << >> ELSE <<rq.path>>
                /\ PField(p["request"], "query")
                     = IF DOMAIN rq.query = {} THEN << >> ELSE <<rq.query>>
                /\ PField(p["request"], "headers")
                     = IF DOMAIN rq.headers = {} THEN << >>
                       ELSE <<[k \in DOMAIN rq.headers |-> Join(rq.headers[k], ", ")]>>
           /\ "response" \in DOMAIN p =>
                /\ p["response"]["status_code"] = rs.statusCode
                /\ PField(p["response"], "headers")
                     = IF DOMAIN rs.headers = {} THEN << >>
                       ELSE <<[k \in DOMAIN rs.headers |-> Join(rs.headers[k], ", ")]>>

\* An all-empty Request was omitted next to a Response with status zero that was
\* kept for its body.
C8_Witness ==
    /\ Emitted /\ call.kind = "transaction"
    /\ AllEmptyRequest(call.setters[1])
    /\ "request" \notin DOMAIN writes[1]
    /\ "response" \in DOMAIN writes[1]
    /\ call.setters[2].statusCode = 0
    /\ call.setters[2].body # ""
----------------------------------------------------------------------------
(* net/http as the middleware uses it. *)

\* http.Header.Get: the first value of the key, "" when there is none.
Get(h, key) == IF key \in DOMAIN h /\ Len(h[key]) > 0 THEN h[key][1] ELSE ""

\* A ResponseWriter. header is the live map Header() returns; code and snap are the
\* status and the headers as the first WriteHeader fixed them; body is what Write
\* accepted; broken says the connection is gone and Write fails.
NewWriter(code, broken) ==
    [header |-> << >>, wroteHeader |-> FALSE, code |-> code, snap |-> << >>,
     body |-> "", broken |-> broken]

\* httptest.NewRecorder(): Code is 200 from the start, Write never fails.
NewRecorder == NewWriter(200, FALSE)

wSet(w, key, value) == [w EXCEPT !.header = (key :> <<value>>) @@ @]

wWriteHeader(w, code) ==
    IF w.wroteHeader THEN w
    ELSE [w EXCEPT !.wroteHeader = TRUE, !.code = code, !.snap = w.header]

wWrite(w, data) ==
    LET w1 == wWriteHeader(w, 200) IN
    IF w1.broken THEN [w |-> w1, err |-> TRUE]
    ELSE [w |-> [w1 EXCEPT !.body = @ \o data], err |-> FALSE]

\* ioutil.ReadAll on a request body [kind, data]: all of an "ok" body, an error on
\* a "fail" one; the body is drained afterwards.
ReadAll(body) ==
    [data |-> IF body.kind = "ok" THEN body.data ELSE "",
     err |-> IF body.kind = "fail" THEN <<"unexpected EOF">> ELSE << >>,
     body |-> [body EXCEPT !.data = ""]]

\* What the client has received once the server is done with the request: the
\* status and headers of the first WriteHeader (an implicit 200 when the handler
\* wrote none) and the body; a panic that reaches the server aborts the connection.
Finish(x) ==
    LET w == IF x.panic = << >> THEN wWriteHeader(x.w, 200) ELSE x.w IN
    [status |-> w.code, header |-> w.snap, body |-> w.body,
     wroteHeader |-> w.wroteHeader, aborted |-> x.panic # << >>]

----------------------------------------------------------------------------
(* Package middleware. *)

GetReferenceID(r) ==
    IF "reference_id" \in DOMAIN r.ctx THEN r.ctx["reference_id"] ELSE ""

GetUser(r) ==
    IF "user" \in DOMAIN r.ctx THEN r.ctx["user"] ELSE ""

RefJSON(refID) == "{\"reference_id\": \"" \o refID \o "\"}"

\* fmt.Sprintf("%#v", v): some rendering of the value.
GoSyntax(v) == "%#v"

InMessage(method, host, path, code) ==
    "in '" \o method \o " " \o host \o path \o "' " \o ToString(code)

\* log.Log from a middleware: the sink takes the write, and the order of writes
\* and handler calls is kept in trace.
LogX(x, message, setters) ==
    The({[x EXCEPT !.lg = lg,
                   !.trace = IF Len(lg.writes) > Len(x.lg.writes)
                             THEN Append(@, [ev |-> "write", message |-> message])
                             ELSE @] :
            lg \in {Log(x.lg, message, setters, TRUE, TRUE)}})

\* respond500 without w.WriteHeader(http.StatusInternalServerError).
respond500_NoWriteHeader(x, refID) ==
    [x EXCEPT !.w = wWrite(wSet(@, "Content-Type", "application/json"), RefJSON(refID)).w]

\* w.Header().Set("Content-Type", ...); w.WriteHeader(500); w.Write({"reference_id": ...})
respond500(x, refID) ==
    [x EXCEPT !.w = wWrite(wWriteHeader(wSet(@, "Content-Type", "application/json"), 500),
                           RefJSON(refID)).w]

\* The ResponseWriter the handler is given: the recorder inside
\* RequestResponseLogger, the real one otherwise.
hw(x) == IF x.rec = << >> THEN x.w ELSE x.rec[1]
setHw(x, w) == IF x.rec = << >> THEN [x EXCEPT !.w = w] ELSE [x EXCEPT !.rec = <<w>>]

\* One statement of the wrapped handler.
handlerStep(x, o) ==
    CASE o.op = "ReadBody" ->
            IF x.r.Body.kind = "nil" THEN [x EXCEPT !.panic = <<"nil pointer dereference">>]
            ELSE LET rd == ReadAll(x.r.Body) IN
                 [x EXCEPT !.r.Body = rd.body,
                           !.reads = Append(@, [data |-> rd.data, err |-> rd.err])]
      [] o.op = "SetHeader" -> setHw(x, wSet(hw(x), o.key, o.value))
      [] o.op = "WriteHeader" -> setHw(x, wWriteHeader(hw(x), o.code))
      [] o.op = "Write" -> setHw(x, wWrite(hw(x), o.data).w)
      [] o.op = "Panic" -> [x EXCEPT !.panic = <<"boom">>]

RECURSIVE handlerRun(_, _)
handlerRun(x, ops) ==
    IF Len(ops) = 0 THEN [x EXCEPT !.trace = Append(@, [ev |-> "handler.return"])]
    ELSE The({IF x1.panic # << >>
              THEN [x1 EXCEPT !.trace = Append(@, [ev |-> "handler.panic"])]
              ELSE handlerRun(x1, Tail(ops)) :
                  x1 \in {handlerStep(x, Head(ops))}})

\* The wrapped handler: post, get, getSilent or any other.
handler(x) ==
    handlerRun([x EXCEPT !.trace = Append(@, [ev |-> "handler.call"])], x.prog)

RequestResponseLogger_BodyErr(x, refID, user) ==
    The({respond500(x1, refID) :
           x1 \in {LogX(x, "failed ioutil.ReadAll",
                        <<ReferenceID(refID), User(user), Error(ReadAll(x.r.Body).err),
                          Context(<<"body" :> GoSyntax(x.r.Body)>>),
                          Request(x.r.Method, x.r.Host, x.r.Path, x.r.Query,
                                  x.r.Header, "")>>)}})

\* Lines 94-138: read the recorder, replay it to the real writer, then log the
\* transaction. rec.Body is the recorder's own buffer: it is never nil and reading
\* it never fails, so the error branch of lines 96-110 is not reached.
RequestResponseLogger_Replay(x, refID, user, reqBody) ==
    LET rec == x.rec[1]
        respBody == rec.body
        request == Request(x.r.Method, x.r.Host, x.r.Path, x.r.Query, x.r.Header, reqBody)
        response == Response(rec.code, rec.header, respBody)
    IN The({LogX(x2, InMessage(x.r.Method, x.r.Host, x.r.Path, rec.code),
                 <<ReferenceID(refID), User(user), request, response>>) :
              x2 \in {IF wr.err
                      THEN LogX([x EXCEPT !.w = wr.w, !.rec = << >>], "failed w.Write",
                                <<ReferenceID(refID), User(user), Error(<<"broken pipe">>),
                                  Context(<<"body" :> GoSyntax(respBody)>>),
                                  request, response>>)
                      ELSE [x EXCEPT !.w = wr.w, !.rec = << >>] :
                          wr \in {IF Len(respBody) > 0 THEN wWrite(w1, respBody)
                                  ELSE [w |-> w1, err |-> FALSE] :
                                      w1 \in {wWriteHeader(
                                                 [x.w EXCEPT !.header = rec.header @@ @],
                                                 rec.code)}}}})

\* RequestResponseLogger with a return after the failed w.Write.
RequestResponseLogger_ReturnOnWriteError(x) ==
    LET refID == GetReferenceID(x.r)
        user == GetUser(x.r)
        rd == ReadAll(x.r.Body)
    IN IF x.r.Body.kind # "nil" /\ rd.err # << >>
       THEN RequestResponseLogger_BodyErr(x, refID, user)
       ELSE LET x1 == IF x.r.Body.kind # "nil"
                      THEN [x EXCEPT !.r.Body = [kind |-> "ok", data |-> rd.data]]
                      ELSE x
            IN The({IF x2.panic # << >> THEN [x2 EXCEPT !.rec = << >>]
                    ELSE IF x2.w.broken /\ Len(x2.rec[1].body) > 0
                         THEN [x2 EXCEPT !.rec = << >>]
                    ELSE RequestResponseLogger_Replay(x2, refID, user, rd.data) :
                        x2 \in {handler([x1 EXCEPT !.rec = <<NewRecorder>>])}})

RequestResponseLogger(x) ==
    LET refID == GetReferenceID(x.r)
        user == GetUser(x.r)
        rd == ReadAll(x.r.Body)
    IN IF x.r.Body.kind # "nil" /\ rd.err # << >>
       THEN RequestResponseLogger_BodyErr(x, refID, user)
       ELSE LET x1 == IF x.r.Body.kind # "nil"
                      THEN [x EXCEPT !.r.Body = [kind |-> "ok", data |-> rd.data]]
                      ELSE x
            IN The({IF x2.panic # << >> THEN [x2 EXCEPT !.rec = << >>]
                    ELSE RequestResponseLogger_Replay(x2, refID, user, rd.data) :
                        x2 \in {handler([x1 EXCEPT !.rec = <<NewRecorder>>])}})

\* The router: a route's handler, wrapped by RequestResponseLogger or bare.
router(x) == IF x.chain.logger THEN RequestResponseLogger(x) ELSE handler(x)

Recover(x) ==
    The({IF x1.panic = << >> THEN x1
         ELSE LET refID == GetReferenceID(x1.r)
                  user == GetUser(x1.r)
              IN The({respond500(x2, refID) :
                        x2 \in {LogX([x1 EXCEPT !.panic = << >>], "failed handler.ServeHTTP",
                                     <<ReferenceID(refID), User(user), Error(x1.panic),
                                       Context(<<"body" :> GoSyntax(x1.r.Body)>>),
                                       Request(x1.r.Method, x1.r.Host, x1.r.Path,
                                               x1.r.Query, x1.r.Header, "")>>)}}) :
            x1 \in {router(x)}})

\* What ReferenceID wraps; on entry it sees the context and the response headers.
wrapped(x) ==
    LET x1 == [x EXCEPT !.entry = <<[ctxRef |-> GetReferenceID(x.r),
                                     hdrRef |-> IF "Reference-Id" \in DOMAIN x.w.header
                                                THEN x.w.header["Reference-Id"]
                                                ELSE << >>]>>]
    IN IF x.chain.recover THEN Recover(x1) ELSE router(x1)

\* ReferenceID echoing the inbound header value instead of ref.
ReferenceIDMiddleware_EchoInbound(x) ==
    LET inbound == Get(x.r.Header, "Reference-Id")
        ref == IF inbound = "" THEN x.gen ELSE inbound
    IN wrapped([x EXCEPT !.r.ctx = ("reference_id" :> ref) @@ @,
                         !.w = wSet(@, "Reference-Id", inbound)])

\* middleware.ReferenceID (log.ReferenceID, the option, has the name above).
ReferenceIDMiddleware(x) ==
    LET inbound == Get(x.r.Header, "Reference-Id")
        ref == IF inbound = "" THEN x.gen ELSE inbound
    IN wrapped([x EXCEPT !.r.ctx = ("reference_id" :> ref) @@ @,
                         !.w = wSet(@, "Reference-Id", ref)])

\* The server hands the request to the outermost handler.
ServeHTTP(x) == IF x.chain.refID THEN ReferenceIDMiddleware(x) ELSE wrapped(x)

----------------------------------------------------------------------------
(* The requests that arrive. *)

ReadBody == [op |-> "ReadBody"]
SetHeader(key, value) == [op |-> "SetHeader", key |-> key, value |-> value]
WriteHeader(code) == [op |-> "WriteHeader", code |-> code]
Write(data) == [op |-> "Write", data |-> data]
Panic == [op |-> "Panic"]

\* The statements a handler is made of.
HandlerOps == {ReadBody, SetHeader("X", "a"), WriteHeader(201), Write("ok"), Panic}

\* The ids shortuuid.New() may return.
GenIDs == {"uuid-" \o ToString(i) : i \in 1..MaxIDs}

RequestHeaders ==
    {NoHeaders, "Reference-Id" :> <<"">>, "Reference-Id" :> <<"abc">>}

RequestBodies ==
    {[kind |-> "nil", data |-> ""], [kind |-> "ok", data |-> "hi"],
     [kind |-> "fail", data |-> ""]}

Chains ==
    [refID : BOOLEAN, recover : BOOLEAN, logger : BOOLEAN]

Incoming ==
    {[chain |-> chain, prog |-> prog, broken |-> broken,
      r |-> [Method |-> "POST", Host |-> "localhost:8080", Path |-> "/person/bob",
             Query |-> NoMap, Header |-> header, Body |-> body, ctx |-> << >>]] :
        chain \in Chains, prog \in SeqsUpTo(HandlerOps, MaxOps),
        broken \in BOOLEAN, header \in RequestHeaders, body \in RequestBodies}

\* A connection that is gone matters where the middleware itself writes, and the
\* Reference-ID request header where the ReferenceID middleware reads it.
InitMW ==
    /\ Writer \in {"nil", "buffer"}
    /\ incoming \in {<<in>> : in \in {i \in Incoming :
                                        /\ i.broken => i.chain.logger
                                        /\ i.r.Header # NoHeaders => i.chain.refID}}
    /\ served = << >>
    /\ call = NoCall
    /\ writes = << >>
    /\ diag = << >>
    /\ outcome = "none"
    /\ pc = << >>
    /\ logged = << >>
    /\ stdoutBuf = << >>

NewExchange(in, gen) ==
    [chain |-> in.chain, prog |-> in.prog, gen |-> gen, r |-> in.r,
     w |-> NewWriter(0, in.broken), rec |-> << >>, lg |-> NewLg, panic |-> << >>,
     trace |-> << >>, reads |-> << >>, entry |-> << >>]

\* The server serves the request through the middleware chain, start to end.
Serve ==
    /\ incoming # << >>
    /\ served = << >>
    /\ \E gen \in GenIDs :
        \E x \in {ServeHTTP(NewExchange(incoming[1], gen))} :
            /\ served' = <<[resp |-> Finish(x), trace |-> x.trace, reads |-> x.reads,
                            entry |-> x.entry, ctx |-> x.r.ctx]>>
            /\ writes' = x.lg.writes
            /\ diag' = x.lg.diag
    /\ UNCHANGED <<Writer, call, outcome, incoming, pc, logged, stdoutBuf>>

NextMW == Serve

SpecMW == InitMW /\ [][NextMW]_vars

----------------------------------------------------------------------------
(* Properties of package middleware, stated for the behaviours of SpecMW. *)

In == incoming[1]
Done == served[1]

\* The reference id the request carries in its context when it is served.
RefOf(ctx) == IF "reference_id" \in DOMAIN ctx THEN ctx["reference_id"] ELSE ""

StatusCodes == {200, 201, 500}

\* The message of an inbound event of the request.
IsInbound(message) ==
    \E code \in StatusCodes : message = InMessage(In.r.Method, In.r.Host, In.r.Path, code)

InboundWrites == {i \in 1..Len(writes) : IsInbound(writes[i]["message"])}

WritesOf(message) == {i \in 1..Len(writes) : writes[i]["message"] = message}

Happened(ev) == \E j \in 1..Len(Done.trace) : Done.trace[j].ev = ev

\* Every write of an inbound event comes after the handler has returned.
InboundAfterReturn ==
    \A i \in 1..Len(Done.trace) :
        (Done.trace[i].ev = "write" /\ IsInbound(Done.trace[i].message)) =>
            \E j \in 1..(i - 1) : Done.trace[j].ev = "handler.return"

\* C1 as stated: every call of a handler wrapped by RequestResponseLogger, the sink
\* enabled, writes exactly one inbound event, after the handler has returned.
C1_ExactlyOneInbound ==
    (served # << >> /\ In.chain.logger /\ Writer # "nil") =>
        /\ Cardinality(InboundWrites) = 1
        /\ InboundAfterReturn

\* C1 amended: with the sink enabled, a call whose request body is read without
\* error and whose handler returns writes exactly one inbound event, after the
\* handler has returned; a call whose body read fails or whose handler panics
\* writes none.
C1_OneInboundUnlessFailed ==
    (served # << >> /\ In.chain.logger /\ Writer # "nil") =>
        /\ Cardinality(InboundWrites)
             = IF In.r.Body.kind = "fail" \/ Happened("handler.panic") THEN 0 ELSE 1
        /\ InboundAfterReturn

\* The handler read the body, wrote 201 and a body, and one inbound event followed.
C1_Witness ==
    /\ served # << >> /\ In.chain.logger /\ Writer # "nil"
    /\ Len(Done.reads) > 0
    /\ Done.resp.status = 201 /\ Done.resp.body = "ok"
    /\ Cardinality(InboundWrites) = 1
    /\ Done.trace[Len(Done.trace)].ev = "write"

\* The same request served with the handler called directly, not wrapped.
Direct ==
    ServeHTTP(NewExchange([In EXCEPT !.chain.logger = FALSE],
                          IF RefOf(Done.ctx) = "" THEN "uuid-1" ELSE RefOf(Done.ctx)))

\* C2 as stated: for a request whose body reads succeed and a handler that returns,
\* the wrapped handler reads the bytes the caller sent and the client receives the
\* status, headers and body it would receive from the handler called directly.
C2_Transparent ==
    (served # << >> /\ In.chain.logger /\ In.r.Body.kind # "fail"
                    /\ ~Happened("handler.panic")) =>
        /\ Done.reads = Direct.reads
        /\ Done.resp = Finish(Direct)

\* The handler sets a header after the status is written.
LateHeader ==
    \E i, j \in 1..Len(In.prog) :
        /\ i < j
        /\ In.prog[i].op \in {"WriteHeader", "Write"}
        /\ In.prog[j].op = "SetHeader"

\* The part of C2 the code does satisfy: handlers that set no header after the
\* status or the body is written.
C2_TransparentUnlessLateHeader ==
    (served # << >> /\ In.chain.logger /\ In.r.Body.kind # "fail"
                    /\ ~Happened("handler.panic") /\ ~LateHeader) =>
        /\ Done.reads = Direct.reads
        /\ Done.resp = Finish(Direct)

\* C3 as stated: when a handler wrapped by Recover panics, whatever it has written
\* before, the client (still connected) receives status 500 with a JSON body that
\* holds the reference id alone, and one failure event is logged to an enabled sink.
C3_PanicGives500 ==
    (served # << >> /\ In.chain.recover /\ Happened("handler.panic") /\ ~In.broken) =>
        /\ ~Done.resp.aborted
        /\ Done.resp.status = 500
        /\ Get(Done.resp.header, "Content-Type") = "application/json"
        /\ Done.resp.body = RefJSON(RefOf(Done.ctx))
        /\ Writer # "nil" => Cardinality(WritesOf("failed handler.ServeHTTP")) = 1

\* The handler writes a status or a body to the real writer before it panics.
WroteBeforePanic ==
    /\ ~In.chain.logger
    /\ \E i \in 1..Len(In.prog) : In.prog[i].op \in {"WriteHeader", "Write"}

\* The part of C3 the code does satisfy: the handler had written nothing to the
\* real response writer when it panicked.
C3_PanicGives500UnlessWritten ==
    (served # << >> /\ In.chain.recover /\ Happened("handler.panic") /\ ~In.broken
                    /\ ~WroteBeforePanic) =>
        /\ ~Done.resp.aborted
        /\ Done.resp.status = 500
        /\ Get(Done.resp.header, "Content-Type") = "application/json"
        /\ Done.resp.body = RefJSON(RefOf(Done.ctx))
        /\ Writer # "nil" => Cardinality(WritesOf("failed handler.ServeHTTP")) = 1

\* C4: through the ReferenceID middleware the wrapped handler is entered with the
\* id in the request context and the same id as the Reference-ID response header;
\* the id is the inbound header's value when that is non-empty and a generated,
\* non-empty one otherwise; the client receives that header.
C4_ReferenceIDPropagated ==
    (served # << >> /\ In.chain.refID) =>
        LET inbound == IF "Reference-Id" \in DOMAIN In.r.Header
                       THEN In.r.Header["Reference-Id"][1] ELSE ""
            e == Done.entry[1]
        IN /\ e.hdrRef = <<e.ctxRef>>
           /\ e.ctxRef # ""
           /\ inbound # "" => e.ctxRef = inbound
           /\ inbound = "" => e.ctxRef \in GenIDs
           /\ Done.resp.wroteHeader =>
                /\ "Reference-Id" \in DOMAIN Done.resp.header
                /\ Done.resp.header["Reference-Id"] = <<e.ctxRef>>

\* A request with an empty Reference-ID header was given a generated id.
C4_Witness ==
    /\ served # << >> /\ In.chain.refID
    /\ In.r.Header = ("Reference-Id" :> <<"">>)
    /\ Done.entry[1].ctxRef \in GenIDs
    /\ Done.entry[1].hdrRef = <<Done.entry[1].ctxRef>>

\* What C9 says of the client (still connected) and of the handler.
C9_Response ==
    /\ ~Happened("handler.call")
    /\ Done.resp.status = 500
    /\ Get(Done.resp.header, "Content-Type") = "application/json"
    /\ Done.resp.body = RefJSON(RefOf(Done.ctx))

\* One failure event, tagged with the request's reference id, was written.
C9_FailureLogged ==
    /\ Len(writes) = 1
    /\ writes[1]["message"] = "failed ioutil.ReadAll"
    /\ "error" \in DOMAIN writes[1]
    /\ PField(writes[1], "reference_id")
         = IF RefOf(Done.ctx) = "" THEN << >> ELSE <<RefOf(Done.ctx)>>

BodyReadFailed ==
    served # << >> /\ In.chain.logger /\ In.r.Body.kind = "fail" /\ ~In.broken

\* C9 as stated: when RequestResponseLogger fails to read the request body the
\* handler is not invoked, the client receives 500, content type JSON and the
\* reference-id body, and a failure event with the reference id is logged.
C9_BodyReadFailure ==
    BodyReadFailed => (C9_Response /\ C9_FailureLogged)

\* C9 amended: the same, the failure event being logged when the sink is enabled;
\* with the sink disabled (nil) nothing is written.
C9_BodyReadFailureSinkEnabled ==
    BodyReadFailed =>
        /\ C9_Response
        /\ Writer # "nil" => C9_FailureLogged
        /\ Writer = "nil" => writes = << >>

\* A body read failed on a request that carries a reference id, the sink enabled.
C9_Witness ==
    /\ BodyReadFailed /\ Writer # "nil"
    /\ RefOf(Done.ctx) = "abc"
    /\ Done.resp.status = 500
    /\ Len(writes) = 1
    /\ Len(In.prog) > 0

----------------------------------------------------------------------------
(* The default sink, stdout{}, under concurrent callers of Log. *)

\* The goroutines of BenchmarkLog's RunParallel.
Goroutines == {1, 2}

InitStdout ==
    /\ Writer = "stdout"
    /\ pc = [g \in Goroutines |-> "idle"]
    /\ logged = [g \in Goroutines |-> 0]
    /\ stdoutBuf = << >>
    /\ call = NoCall
    /\ writes = << >>
    /\ diag = << >>
    /\ outcome = "none"
    /\ incoming = << >>
    /\ served = << >>

\* Log("No context.") up to the first statement of stdout.Write: the event is
\* serialized and os.Stdout.Write(p) puts its bytes on standard output.
stdoutWriteEvent(g) ==
    /\ pc[g] = "idle"
    /\ logged[g] < MaxLogs
    /\ LET lg == Log(NewLg, "No context.", << >>, TRUE, TRUE) IN
       stdoutBuf' = Append(stdoutBuf, [kind |-> "event", by |-> g, n |-> logged[g] + 1,
                                       p |-> lg.writes[1]])
    /\ pc' = [pc EXCEPT ![g] = "newline"]
    /\ UNCHANGED <<Writer, call, writes, diag, outcome, incoming, served, logged>>

\* The second statement of stdout.Write, os.Stdout.Write([]byte("\n")), and the
\* return from Log.
stdoutWriteNewline(g) ==
    /\ pc[g] = "newline"
    /\ stdoutBuf' = Append(stdoutBuf, [kind |-> "newline", by |-> g, n |-> logged[g] + 1,
                                       p |-> << >>])
    /\ pc' = [pc EXCEPT ![g] = "idle"]
    /\ logged' = [logged EXCEPT ![g] = @ + 1]
    /\ UNCHANGED <<Writer, call, writes, diag, outcome, incoming, served>>

NextStdout ==
    \E g \in Goroutines : stdoutWriteEvent(g) \/ stdoutWriteNewline(g)

SpecStdout == InitStdout /\ [][NextStdout]_vars

\* C10 as stated: with the default sink and concurrent callers of Log, the bytes
\* of every event on standard output are followed by that event's own newline
\* before any byte of another event.
C10_NewlineDelimited ==
    \A i \in 1..Len(stdoutBuf) :
        (stdoutBuf[i].kind = "event" /\ i < Len(stdoutBuf)) =>
            /\ stdoutBuf[i + 1].kind = "newline"
            /\ stdoutBuf[i + 1].by = stdoutBuf[i].by
            /\ stdoutBuf[i + 1].n = stdoutBuf[i].n

\* What does hold: every caller's own chunks alternate, event then newline.
C10_EachCallerWritesBoth ==
    \A g \in Goroutines :
        LET mine == SelectSeq(stdoutBuf, LAMBDA c : c.by = g) IN
        \A i \in 1..Len(mine) :
            mine[i].kind = IF i % 2 = 1 THEN "event" ELSE "newline"

====
